---- MODULE Spec2Model ----
(***************************************************************************)
(* Model of the Ground X "X-Ray" Streamlit front-end (app.py):             *)
(*   - the chat helpers prepare_chat_context and generate_chat_response,   *)
(*   - the script body, which Streamlit re-executes top to bottom on every *)
(*     user interaction, acting on st.session_state.                       *)
(***************************************************************************)
EXTENDS Integers, Sequences, FiniteSets, TLC

(***************************************************************************)
(* Python values.  A value is a record [k, v]: k is the kind ("absent" for *)
(* a key that is missing from its dict, "null" for None, "str", "list"),   *)
(* v the payload.  A string is a sequence of runs [ch, n]: the character   *)
(* ch repeated n times; fixed literals of the code are one run each.       *)
(***************************************************************************)
Absent == [k |-> "absent", v |-> <<>>]

Null == [k |-> "null", v |-> <<>>]

StrV(s) == [k |-> "str", v |-> s]

ListV(l) == [k |-> "list", v |-> l]

Raised == [k |-> "raise", v |-> <<>>]

Lit(t) == <<[ch |-> t, n |-> 1]>>

Rep(c, n) == IF n = 0 THEN <<>> ELSE <<[ch |-> c, n |-> n]>>

\* bool(x) of Python for the values above: None, "" and [] are falsy
Truthy(x) == x.k \in {"str", "list"} /\ x.v # <<>>

\* s + t on strings; adjacent runs of one character are merged
Concat(s, t) ==
    IF s = <<>> THEN t
    ELSE IF t = <<>> THEN s
    ELSE IF s[Len(s)].ch = t[1].ch
         THEN SubSeq(s, 1, Len(s) - 1)
              \o <<[ch |-> t[1].ch, n |-> s[Len(s)].n + t[1].n]>>
              \o Tail(t)
         ELSE s \o t

RECURSIVE StrLen(_)
\* len(s)
StrLen(s) == IF s = <<>> THEN 0 ELSE Head(s).n + StrLen(Tail(s))

RECURSIVE StrTake(_, _)
\* s[:n]
StrTake(s, n) ==
    IF n <= 0 \/ s = <<>> THEN <<>>
    ELSE IF Head(s).n >= n THEN <<[ch |-> Head(s).ch, n |-> n]>>
    ELSE <<Head(s)>> \o StrTake(Tail(s), n - Head(s).n)

RECURSIVE StrJoin(_, _)
\* sep.join(parts)
StrJoin(sep, parts) ==
    IF parts = <<>> THEN <<>>
    ELSE IF Len(parts) = 1 THEN parts[1]
    ELSE Concat(Concat(parts[1], sep), StrJoin(sep, Tail(parts)))

\* l[:n] on lists
ListTake(l, n) == SubSeq(l, 1, IF Len(l) < n THEN Len(l) ELSE n)

(***************************************************************************)
(* prepare_chat_context                                                    *)
(***************************************************************************)
ExcerptLimit == 500

PageWindow == 2

ChunkWindow == 3

Ellipsis == Lit("...")

\* An X-Ray result is a dict, modelled as a record of its known keys, each
\* Absent when the key is missing; {} has every key Absent.
EmptyDict == [fileSummary |-> Absent, documentPages |-> Absent,
              fileType |-> Absent, language |-> Absent]

\* bool(xray_data): None and {} are falsy
DictTruthy(x) ==
    /\ x # Null
    /\ \E f \in DOMAIN x : x[f] # Absent

\* Excerpt with >= in place of the > of line 85
ExcerptAtLimit(text) ==
    IF StrLen(text) >= ExcerptLimit
    THEN Concat(StrTake(text, ExcerptLimit), Ellipsis)
    ELSE text

\* lines 84-86: the excerpt of one chunk text
Excerpt(text) ==
    IF StrLen(text) > ExcerptLimit
    THEN Concat(StrTake(text, ExcerptLimit), Ellipsis)
    ELSE text

RECURSIVE ChunkTexts(_)
\* lines 82-87 on an already sliced chunk list
ChunkTexts(chunks) ==
    IF chunks = <<>> THEN <<>>
    ELSE (IF Head(chunks).text # Absent /\ Truthy(Head(chunks).text)
          THEN <<Excerpt(Head(chunks).text.v)>> ELSE <<>>)
         \o ChunkTexts(Tail(chunks))

\* PageChunks without the [:3] of line 82
PageChunksUnsliced(page) ==
    IF page.chunks = Absent THEN <<>> ELSE page.chunks.v

\* lines 81-82: the chunks the loop visits on one page
PageChunks(page) ==
    IF page.chunks = Absent THEN <<>> ELSE ListTake(page.chunks.v, ChunkWindow)

RECURSIVE PagesTexts(_)
\* lines 80-87 on an already sliced page list
PagesTexts(pages) ==
    IF pages = <<>> THEN <<>>
    ELSE ChunkTexts(PageChunks(Head(pages))) \o PagesTexts(Tail(pages))

\* line 78
HasPages(x) == x.documentPages # Absent /\ Truthy(x.documentPages)

\* line 80: the pages the loop visits
VisitedPages(x) == ListTake(x.documentPages.v, PageWindow)

\* line 82: page['chunks'][:3] raises TypeError when the key holds None
SliceRaises(x) ==
    /\ HasPages(x)
    /\ \E i \in 1..Len(VisitedPages(x)) : VisitedPages(x)[i].chunks = Null

\* lines 79-87
ExtractedTexts(x) == IF HasPages(x) THEN PagesTexts(VisitedPages(x)) ELSE <<>>

\* ContextParts with the metadata of lines 93-96 ahead of the content of 78-90
ContextPartsMetadataFirst(x) ==
    (IF Truthy(x.fileSummary)
     THEN <<Concat(Lit("Summary: "), x.fileSummary.v)>> ELSE <<>>)
    \o (IF Truthy(x.fileType)
        THEN <<Concat(Lit("File Type: "), x.fileType.v)>> ELSE <<>>)
    \o (IF Truthy(x.language)
        THEN <<Concat(Lit("Language: "), x.language.v)>> ELSE <<>>)
    \o (IF ExtractedTexts(x) # <<>>
        THEN <<Concat(Lit("Document Content: "),
                      StrJoin(Lit(" "), ExtractedTexts(x)))>> ELSE <<>>)

\* lines 71-96
ContextParts(x) ==
    (IF Truthy(x.fileSummary)
     THEN <<Concat(Lit("Summary: "), x.fileSummary.v)>> ELSE <<>>)
    \o (IF ExtractedTexts(x) # <<>>
        THEN <<Concat(Lit("Document Content: "),
                      StrJoin(Lit(" "), ExtractedTexts(x)))>> ELSE <<>>)
    \o (IF Truthy(x.fileType)
        THEN <<Concat(Lit("File Type: "), x.fileType.v)>> ELSE <<>>)
    \o (IF Truthy(x.language)
        THEN <<Concat(Lit("Language: "), x.language.v)>> ELSE <<>>)

\* prepare_chat_context with the prompt added to the context as a part
prepare_chat_context_with_prompt(xray_data, prompt) ==
    IF ~DictTruthy(xray_data) THEN Null
    ELSE IF SliceRaises(xray_data) THEN Raised
    ELSE StrV(StrJoin(Lit("\n\n"),
                      ContextParts(xray_data) \o <<Concat(Lit("Question: "), prompt)>>))

\* prepare_chat_context(xray_data, prompt): Null (None), a string, or Raised
prepare_chat_context(xray_data, prompt) ==
    IF ~DictTruthy(xray_data) THEN Null
    ELSE IF SliceRaises(xray_data) THEN Raised
    ELSE IF ContextParts(xray_data) # <<>>
         THEN StrV(StrJoin(Lit("\n\n"), ContextParts(xray_data)))
         ELSE Null

(***************************************************************************)
(* generate_chat_response                                                  *)
(***************************************************************************)
\* Status codes the completion API answers with
HttpStatuses == {200, 201, 404, 500}

\* What response.json() and the reads of lines 151-152 meet in the body
BodyKinds ==
    {"bad_json",        \* response.json() raises
     "no_choices",      \* a body without "choices"
     "empty_choices",   \* "choices": []
     "null_choices",    \* "choices": null, len() raises TypeError
     "no_message",      \* choices[0] without "message", KeyError
     "no_content",      \* choices[0]["message"] without "content", KeyError
     "null_content",    \* "content": null
     "empty_reply",     \* "content": ""
     "reply"}           \* "content": the generated text

\* Outcomes of requests.post and of reading the reply (lines 130-152)
HttpOutcomes ==
    {[kind |-> "exception", status |-> 0]}       \* timeout, connection error
    \cup {[kind |-> b, status |-> c] : b \in BodyKinds, c \in HttpStatuses}

\* the text the completion API generated
GeneratedText == Lit("reply")

\* line 105; the first run is the cross mark that opens the message
NoKeyMessage ==
    <<[ch |-> "\\u274c", n |-> 1],
      [ch |-> " Error: OPENROUTER_API_KEY not found in environment variables. Please add it to your .env file.", n |-> 1]>>

NoResponseMessage == Lit("Sorry, I couldn't generate a response.")

TroubleStatus(code) ==
    <<[ch |-> "I'm having trouble accessing the AI model right now. Status: ", n |-> 1],
      [ch |-> ToString(code), n |-> 1]>>

TroubleError(kind) ==
    <<[ch |-> "I'm having trouble accessing the AI model right now. Error: ", n |-> 1],
      [ch |-> kind, n |-> 1]>>

NoContextInstruction ==
    Lit("No document context available. Answer the question based on general knowledge.")

\* lines 108-126: the prompt sent to the completion API
FullPrompt(prompt, context) ==
    <<Lit("You are an AI assistant helping analyze a document."),
      IF Truthy(context) THEN context.v ELSE NoContextInstruction,
      Lit("User Question: "), prompt>>

\* KeyMissing that takes an empty OPENROUTER_API_KEY for a credential
KeyMissingNoneOnly(api_key) == api_key = Null

\* line 104: not api_key
KeyMissing(api_key) == ~Truthy(api_key)

\* the call reaches requests.post (line 130)
PostsRequest(api_key) == ~KeyMissing(api_key)

\* lines 149-156: what is returned for an answer of the completion API
ReadAnswer(out) ==
    IF out.status = 200
    THEN CASE out.kind = "bad_json" -> StrV(TroubleError("JSONDecodeError"))
           [] out.kind = "no_choices" -> StrV(NoResponseMessage)
           [] out.kind = "empty_choices" -> StrV(NoResponseMessage)
           [] out.kind = "null_choices" -> StrV(TroubleError("TypeError"))
           [] out.kind = "no_message" -> StrV(TroubleError("'message'"))
           [] out.kind = "no_content" -> StrV(TroubleError("'content'"))
           [] out.kind = "null_content" -> Null
           [] out.kind = "empty_reply" -> StrV(<<>>)
           [] OTHER -> StrV(GeneratedText)
    ELSE StrV(TroubleStatus(out.status))

\* generate_chat_response(prompt, context) when the remote call ends in `out`
generate_chat_response(prompt, context, api_key, out) ==
    IF KeyMissing(api_key) THEN StrV(NoKeyMessage)
    ELSE IF out.kind = "exception" THEN StrV(TroubleError("transport"))
    ELSE ReadAnswer(out)

(***************************************************************************)
(* The documents of the model                                              *)
(***************************************************************************)
\* SAMPLE_FILE_NAME (line 282)
Sample == "sample-file.pdf"

\* a scan whose result has a page with "chunks": null
ScanFile == "scan.png"

Names == {Sample, ScanFile}

\* uploaded.type of a file of the uploader
TypeOf(name) == IF name = ScanFile THEN "image/png" ELSE "application/pdf"

None == "None"

False == "False"

\* The X-Ray result the document API computes for a file
XRayOf(name) ==
    CASE name = None -> Null
      [] name = Sample ->
           [fileSummary |-> StrV(Lit("S")),
            documentPages |-> ListV(<<[chunks |-> ListV(<<[text |-> StrV(Rep("t", 3))]>>)]>>),
            fileType |-> StrV(Lit("PDF")), language |-> StrV(Lit("en"))]
      [] OTHER ->
           [fileSummary |-> StrV(Lit("A")),
            documentPages |-> ListV(<<[chunks |-> Null]>>),
            fileType |-> Absent, language |-> Null]

(***************************************************************************)
(* Configuration: the document API credential                              *)
(***************************************************************************)
Placeholder == Lit("your-groundx-api-key-here")

Whitespace == {" "}

Bom == "\\ufeff"

RECURSIVE LStrip(_, _)
\* s.lstrip(chars)
LStrip(s, chars) ==
    IF s # <<>> /\ Head(s).ch \in chars THEN LStrip(Tail(s), chars) ELSE s

RECURSIVE RStrip(_, _)
\* s.rstrip(chars)
RStrip(s, chars) ==
    IF s # <<>> /\ s[Len(s)].ch \in chars
    THEN RStrip(SubSeq(s, 1, Len(s) - 1), chars) ELSE s

\* lines 253-255: os.getenv(...), then .strip() and .lstrip(BOM) when truthy
ApiKeyCheck(key) ==
    IF Truthy(key)
    THEN StrV(LStrip(RStrip(LStrip(key.v, Whitespace), Whitespace), {Bom}))
    ELSE key

\* KeyRejected without the comparison with the placeholder of line 257
KeyRejectedEmptyOnly(key) == ~Truthy(ApiKeyCheck(key))

\* line 257: the credential is treated as absent
KeyRejected(key) ==
    ~Truthy(ApiKeyCheck(key)) \/ ApiKeyCheck(key).v = Placeholder

\* line 263: hashlib.md5(api_key_check.encode()).hexdigest()
Md5(key) == <<"md5", key.v>>

\* lines 236-237 and 265: last_api_key_hash is not in the session
NoHash == <<"none", <<>>>>

\* Values of GROUNDX_API_KEY in the environment
GroundxKeys ==
    {Null, StrV(<<>>), StrV(Rep(" ", 2)), StrV(Placeholder),
     StrV(Concat(Rep(" ", 1), Placeholder)),
     StrV(Concat(Rep(Bom, 1), Lit("gx-key")))}

\* Values of OPENROUTER_API_KEY in the environment
OpenRouterKeys == {Null, StrV(Lit("or-key"))}

(***************************************************************************)
(* Bounds                                                                  *)
(***************************************************************************)
\* the longest chat history the model lets the user build
MaxHistory == 2

\* saturation of the counters that observe remote calls
MaxCount == 2

Questions == {Lit("q1")}

\* outcomes of the completion call taken in the session model
SessionOutcomes ==
    {o \in HttpOutcomes : o.status = 200 /\ o.kind \in {"reply", "null_content"}}

Bump(c) == IF c < MaxCount THEN c + 1 ELSE c

(***************************************************************************)
(* State                                                                   *)
(***************************************************************************)
VARIABLES
    \* st.session_state
    xray_data,            \* None or the file whose X-Ray result is held
    uploaded_file_path,   \* False or the file that the temp path holds
    uploaded_file_name,   \* False or a name
    uploaded_file_type,   \* False or a mime type
    processing_complete,
    used_existing_file,
    auto_loaded_file,
    chat_history,         \* <<>> also when the key is not in the session
    last_api_key_hash,    \* NoHash or a hash
    \* widgets
    uploaded,             \* value of st.file_uploader: None or a file name
    reprocess_button,     \* the Re-process button is on the page
    chat_input,           \* the chat input is on the page
    \* environment
    env_groundx_key,
    env_openrouter_key,
    bucket,               \* the remote bucket: per name, None or the file stored
    \* one run of the script
    pc,                   \* "idle" between runs, else the block to execute next
    trigger,              \* the widget that caused the run
    prompt,               \* the submitted chat message
    gx,
    bucket_id,
    groundx_available,
    \* observation of the run(s) that follow one user event
    last_event,           \* the event, with the file and state it met
    sample_lookups,       \* check_file_exists calls of the auto-load, whole session
    process_calls,        \* process_document calls in this run
    upload_calls,         \* uploads in this run
    lookup_hit,           \* "hit" or "miss": what the name lookup of this run found
    held_at_call,         \* a result was held when process_document was called
    doc_call_failed,      \* the document call that raised since the event
    uncaught,             \* an exception ended the run
    failed_reason,        \* the error of line 386 is on the page
    remote_failed,        \* some remote call raised since the event
    retry_pending,        \* process_document failed and no file was picked,
                          \* nor Re-process pressed, since
    just_reset,           \* the reset that has just been executed
    \* one call of prepare_chat_context
    cx_doc,               \* its xray_data
    cx_prompt,            \* its prompt
    cx_pc,                \* "call" before the call, "done" after it
    cx_out,               \* what it returned
    \* one call of generate_chat_response
    gr_prompt,            \* its prompt
    gr_context,           \* its context
    gr_key,               \* OPENROUTER_API_KEY at the call
    gr_http,              \* how the remote call ends, if it is issued
    gr_pc,                \* "call" before the call, "done" after it
    gr_result,            \* what it returned
    gr_posted             \* requests.post was called

session == <<xray_data, uploaded_file_path, uploaded_file_name, uploaded_file_type,
             processing_complete, used_existing_file, auto_loaded_file,
             chat_history, last_api_key_hash>>

\* the loaded document and its result in the session
document == <<xray_data, uploaded_file_path, uploaded_file_name, uploaded_file_type,
              processing_complete, used_existing_file, auto_loaded_file>>

widgets == <<uploaded, reprocess_button, chat_input>>

env == <<env_groundx_key, env_openrouter_key, bucket>>

run == <<pc, trigger, prompt, gx, bucket_id, groundx_available>>

observed == <<last_event, sample_lookups, process_calls, upload_calls, lookup_hit,
              held_at_call,
              doc_call_failed, uncaught, failed_reason, remote_failed,
              retry_pending, just_reset>>

builder == <<cx_doc, cx_prompt, cx_pc, cx_out>>

reply == <<gr_prompt, gr_context, gr_key, gr_http, gr_pc, gr_result, gr_posted>>

Idle == uploaded = None /\ uploaded_file_name = False /\ xray_data = None

\* a document of that name is in the bucket
InBucket(name) == name # None /\ bucket[name] # None

Event(type, file) ==
    [type |-> type, file |-> file, idle |-> Idle, in_bucket |-> InBucket(file)]

\* lines 162-164: the defaults of a fresh session
SessionDefaults ==
    /\ xray_data = None
    /\ uploaded_file_path = False
    /\ uploaded_file_name = False
    /\ uploaded_file_type = False
    /\ processing_complete = FALSE
    /\ used_existing_file = FALSE
    /\ auto_loaded_file = FALSE

SessionStart ==
    /\ SessionDefaults
    /\ chat_history = <<>>
    /\ last_api_key_hash = NoHash
    /\ uploaded = None
    /\ reprocess_button = FALSE
    /\ chat_input = FALSE
    /\ env_groundx_key \in GroundxKeys
    /\ env_openrouter_key \in OpenRouterKeys
    /\ bucket \in {[n \in Names |-> IF n \in stored THEN n ELSE None] :
                    stored \in SUBSET Names}
    /\ pc = "sidebar"
    /\ trigger = "none"
    /\ prompt = <<>>
    /\ gx = None
    /\ bucket_id = None
    /\ groundx_available = FALSE
    /\ last_event = [type |-> "load", file |-> None, idle |-> TRUE, in_bucket |-> FALSE]
    /\ sample_lookups = 0
    /\ process_calls = 0
    /\ upload_calls = 0
    /\ lookup_hit = "none"
    /\ held_at_call = FALSE
    /\ doc_call_failed = "none"
    /\ uncaught = FALSE
    /\ failed_reason = FALSE
    /\ remote_failed = FALSE
    /\ retry_pending = FALSE
    /\ just_reset = "none"

(***************************************************************************)
(* User events.  Each one starts a run of the script.                      *)
(***************************************************************************)
\* what every event resets in the observation
NewEvent(type, file) ==
    /\ last_event' = Event(type, file)
    /\ upload_calls' = 0
    /\ lookup_hit' = "none"
    /\ doc_call_failed' = "none"
    /\ uncaught' = FALSE
    /\ remote_failed' = FALSE
    /\ just_reset' = "none"
    /\ UNCHANGED <<sample_lookups, process_calls, held_at_call, failed_reason>>

StartRun(widget) ==
    /\ pc = "idle"
    /\ pc' = "sidebar"
    /\ trigger' = widget
    /\ UNCHANGED <<gx, bucket_id, groundx_available>>

\* lines 209-213: the user puts a file in the uploader
SelectFile(f) ==
    /\ UNCHANGED <<builder, reply>>
    /\ StartRun("none")
    /\ uploaded' = f
    /\ NewEvent("select", f)
    /\ retry_pending' = FALSE
    /\ UNCHANGED <<session, reprocess_button, chat_input, env, prompt>>

\* lines 209-213: the user removes the file from the uploader
RemoveFile ==
    /\ UNCHANGED <<builder, reply>>
    /\ uploaded # None
    /\ StartRun("none")
    /\ uploaded' = None
    /\ NewEvent("remove", uploaded)
    /\ UNCHANGED <<session, reprocess_button, chat_input, env, prompt, retry_pending>>

\* lines 57-63 and 222: Clear Analysis runs reset_analysis before the script;
\* lines 162-164 then restore the defaults of the deleted keys
reset_analysis ==
    /\ xray_data' = None
    /\ uploaded_file_path' = False
    /\ uploaded_file_name' = False
    /\ uploaded_file_type' = False
    /\ processing_complete' = FALSE
    /\ used_existing_file' = FALSE
    /\ auto_loaded_file' = FALSE
    /\ chat_history' = <<>>

ClearAnalysis ==
    /\ UNCHANGED <<builder, reply>>
    /\ StartRun("clear")
    /\ reset_analysis
    /\ last_event' = Event("clear", uploaded)
    /\ just_reset' = "clear"
    /\ upload_calls' = 0
    /\ lookup_hit' = "none"
    /\ doc_call_failed' = "none"
    /\ uncaught' = FALSE
    /\ remote_failed' = FALSE
    /\ UNCHANGED <<last_api_key_hash, widgets, env, prompt, retry_pending,
                   sample_lookups, process_calls, held_at_call, failed_reason>>

\* line 202: the Re-process File button is pressed
PressReprocess ==
    /\ UNCHANGED <<builder, reply>>
    /\ reprocess_button
    /\ StartRun("reprocess")
    /\ NewEvent("reprocess", uploaded)
    /\ retry_pending' = FALSE
    /\ UNCHANGED <<session, widgets, env, prompt>>

\* line 224: the Reload API Keys button is pressed
PressReload ==
    /\ UNCHANGED <<builder, reply>>
    /\ StartRun("reload")
    /\ NewEvent("reload", uploaded)
    /\ UNCHANGED <<session, widgets, env, prompt, retry_pending>>

\* line 514: a chat message is submitted
SubmitChat(q) ==
    /\ UNCHANGED <<builder, reply>>
    /\ chat_input
    /\ Len(chat_history) + 2 <= MaxHistory
    /\ StartRun("chat")
    /\ prompt' = q
    /\ NewEvent("chat", uploaded)
    /\ UNCHANGED <<session, widgets, env, retry_pending>>

\* the .env file is edited between two runs (line 250 reloads it on each run)
EditEnv(gk, ok) ==
    /\ UNCHANGED <<builder, reply>>
    /\ pc = "idle"
    /\ <<gk, ok>> # <<env_groundx_key, env_openrouter_key>>
    /\ env_groundx_key' = gk
    /\ env_openrouter_key' = ok
    /\ UNCHANGED <<session, widgets, bucket, run, observed>>

(***************************************************************************)
(* The script, block by block                                              *)
(***************************************************************************)
\* st.rerun(): the run is abandoned and the script starts again
Rerun ==
    /\ pc' = "sidebar"
    /\ trigger' = "none"

\* an exception nobody catches, or st.stop(): the run ends here and the
\* rest of the page is not rendered
EndRunEarly ==
    /\ pc' = "idle"
    /\ chat_input' = FALSE

\* lines 203-206: the body of the Re-process File button
ReprocessBody ==
    /\ processing_complete' = FALSE
    /\ xray_data' = None
    /\ used_existing_file' = FALSE
    /\ auto_loaded_file' = FALSE
    /\ UNCHANGED chat_history

\* lines 194-239: the sidebar
Sidebar ==
    /\ UNCHANGED <<builder, reply>>
    /\ pc = "sidebar"
    /\ reprocess_button' = (uploaded_file_name # False)
    /\ process_calls' = 0
    /\ upload_calls' = 0
    /\ lookup_hit' = "none"
    /\ held_at_call' = FALSE
    /\ failed_reason' = FALSE
    /\ IF trigger = "reprocess"
       THEN /\ ReprocessBody
            /\ Rerun
            /\ just_reset' = "reprocess"
            /\ UNCHANGED <<uploaded_file_name, uploaded_file_type, last_api_key_hash>>
       ELSE /\ IF uploaded # None
               THEN /\ uploaded_file_name' = uploaded
                    /\ uploaded_file_type' = TypeOf(uploaded)
               ELSE UNCHANGED <<uploaded_file_name, uploaded_file_type>>
            /\ IF trigger = "reload"
               THEN /\ last_api_key_hash' = NoHash
                    /\ Rerun
               ELSE /\ pc' = "client"
                    /\ UNCHANGED <<trigger, last_api_key_hash>>
            /\ just_reset' = "none"
            /\ UNCHANGED <<xray_data, processing_complete, used_existing_file,
                           auto_loaded_file, chat_history>>
    /\ UNCHANGED <<uploaded_file_path, uploaded, chat_input, env, prompt, gx,
                   bucket_id, groundx_available, last_event, sample_lookups,
                   doc_call_failed, uncaught, remote_failed, retry_pending>>

\* Outcomes of create_client and ensure_bucket (lines 269-270)
ClientOutcomes == {"ok", "client_raises", "bucket_raises"}

\* lines 242-277: the document API client
ClientInit(out) ==
    /\ UNCHANGED <<builder, reply>>
    /\ pc = "client"
    /\ pc' = "autoload"
    /\ IF KeyRejected(env_groundx_key)
       THEN /\ out = "ok"
            /\ gx' = None
            /\ bucket_id' = None
            /\ groundx_available' = FALSE
            /\ UNCHANGED <<last_api_key_hash, remote_failed>>
       ELSE /\ last_api_key_hash' = Md5(ApiKeyCheck(env_groundx_key))
            /\ gx' = IF out = "client_raises" THEN None ELSE "client"
            /\ bucket_id' = IF out = "ok" THEN "bucket" ELSE None
            /\ groundx_available' = (out = "ok")
            /\ remote_failed' = (remote_failed \/ out # "ok")
    /\ just_reset' = "none"
    /\ UNCHANGED <<xray_data, uploaded_file_path, uploaded_file_name,
                   uploaded_file_type, processing_complete, used_existing_file,
                   auto_loaded_file, chat_history, widgets, env, trigger, prompt,
                   last_event, sample_lookups, process_calls, upload_calls,
                   lookup_hit, held_at_call, doc_call_failed, uncaught,
                   failed_reason, retry_pending>>

\* Outcomes of the remote calls of one lookup-then-fetch or upload
DocOutcomes == {"ok", "check_raises", "fetch_raises", "upload_raises"}

\* line 280: the guard of the auto-load
AutoLoadGuard ==
    /\ gx # None
    /\ bucket_id # None
    /\ ~auto_loaded_file
    /\ ~DictTruthy(XRayOf(xray_data))

\* lines 279-296: auto-load of the sample document
AutoLoad(out) ==
    /\ UNCHANGED <<builder, reply>>
    /\ pc = "autoload"
    /\ just_reset' = "none"
    /\ IF ~AutoLoadGuard
       THEN /\ out = "ok"
            /\ pc' = "process"
            /\ UNCHANGED <<session, chat_input, trigger, sample_lookups,
                           lookup_hit, doc_call_failed, uncaught, remote_failed>>
       ELSE /\ sample_lookups' = Bump(sample_lookups)
            /\ lookup_hit' = (IF out = "check_raises" THEN "none"
                              ELSE IF InBucket(Sample) THEN "hit" ELSE "miss")
            /\ out # "upload_raises"
            /\ out = "fetch_raises" => InBucket(Sample)
            /\ IF out # "ok"
               THEN \* check_file_exists or get_xray_for_existing_document raises
                    /\ EndRunEarly
                    /\ uncaught' = TRUE
                    /\ remote_failed' = TRUE
                    /\ doc_call_failed' = (IF out = "check_raises" THEN "check" ELSE "fetch")
                    /\ UNCHANGED <<session, trigger>>
               ELSE /\ IF InBucket(Sample)
                       THEN /\ xray_data' = bucket[Sample]
                            /\ uploaded_file_name' = Sample
                            /\ uploaded_file_type' = "application/pdf"
                            /\ processing_complete' = TRUE
                            /\ used_existing_file' = TRUE
                            /\ auto_loaded_file' = TRUE
                            /\ Rerun
                            /\ UNCHANGED <<uploaded_file_path, chat_history,
                                           last_api_key_hash>>
                       ELSE /\ auto_loaded_file' = TRUE
                            /\ pc' = "process"
                            /\ UNCHANGED <<xray_data, uploaded_file_path,
                                           uploaded_file_name, uploaded_file_type,
                                           processing_complete, used_existing_file,
                                           chat_history, last_api_key_hash, trigger>>
                    /\ UNCHANGED <<chat_input, doc_call_failed, uncaught, remote_failed>>
    /\ UNCHANGED <<uploaded, reprocess_button, env, prompt, gx, bucket_id,
                   groundx_available, last_event, process_calls, upload_calls,
                   held_at_call, failed_reason, retry_pending>>

\* lines 302-324: should_process
should_process ==
    \/ uploaded # None
    \/ (uploaded_file_path # False /\ ~processing_complete)

\* lines 304 and 320-324: file_to_process, the upload or the MockUploadedFile
file_to_process ==
    IF uploaded # None
    THEN [name |-> uploaded, type |-> TypeOf(uploaded), path |-> uploaded]
    ELSE [name |-> uploaded_file_name, type |-> uploaded_file_type,
          path |-> uploaded_file_path]

\* process_document(gx, bucket_id, file, path) of groundx_utils: looks the
\* name up in the bucket, fetches the result of a match, else uploads the
\* file at the path under the name and fetches its result.  The value is
\* the call's effect when its remote calls end in `out`.
process_document(file, out) ==
    IF out = "check_raises"
    THEN [raised |-> "check", xray |-> None, used_existing |-> FALSE,
          uploads |-> 0, bucket |-> bucket]
    ELSE IF InBucket(file.name)
    THEN IF out = "fetch_raises"
         THEN [raised |-> "fetch", xray |-> None, used_existing |-> FALSE,
               uploads |-> 0, bucket |-> bucket]
         ELSE [raised |-> "none", xray |-> bucket[file.name], used_existing |-> TRUE,
               uploads |-> 0, bucket |-> bucket]
    ELSE IF out = "upload_raises"
         THEN [raised |-> "upload", xray |-> None, used_existing |-> FALSE,
               uploads |-> 1, bucket |-> bucket]
         ELSE IF out = "fetch_raises"
         THEN [raised |-> "fetch", xray |-> None, used_existing |-> FALSE,
               uploads |-> 1, bucket |-> [bucket EXCEPT ![file.name] = file.path]]
         ELSE [raised |-> "none", xray |-> file.path, used_existing |-> FALSE,
               uploads |-> 1, bucket |-> [bucket EXCEPT ![file.name] = file.path]]

\* ProcessGuard without the test of xray_data of line 326
ProcessGuardAnyResult == should_process

\* line 326: the guard of the processing block
ProcessGuard == should_process /\ xray_data = None

\* StoreResult without the assignment of line 372
StoreResultKeepsFlag(r) ==
    IF r.raised = "none"
    THEN /\ xray_data' = r.xray
         /\ processing_complete' = TRUE
         /\ UNCHANGED used_existing_file
    ELSE /\ processing_complete' = FALSE
         /\ UNCHANGED <<xray_data, used_existing_file>>

\* lines 370-372 and 387: what the call site stores
StoreResult(r) ==
    IF r.raised = "none"
    THEN /\ xray_data' = r.xray
         /\ processing_complete' = TRUE
         /\ used_existing_file' = r.used_existing
    ELSE /\ processing_complete' = FALSE
         /\ UNCHANGED <<xray_data, used_existing_file>>

\* lines 298-387: document processing
Process(out) ==
    /\ UNCHANGED <<builder, reply>>
    /\ pc = "process"
    /\ just_reset' = "none"
    /\ uploaded_file_path' = IF uploaded # None THEN uploaded ELSE uploaded_file_path
    /\ IF ~ProcessGuard
       THEN /\ out = "ok"
            /\ pc' = "display"
            /\ UNCHANGED <<xray_data, processing_complete, used_existing_file,
                           chat_input, bucket, process_calls, upload_calls,
                           lookup_hit, held_at_call, doc_call_failed,
                           failed_reason, remote_failed, retry_pending>>
       ELSE IF ~groundx_available
       THEN \* lines 327-359: diagnostics, then st.stop()
            /\ out = "ok"
            /\ EndRunEarly
            /\ UNCHANGED <<xray_data, processing_complete, used_existing_file,
                           bucket, process_calls, upload_calls, lookup_hit,
                           held_at_call, doc_call_failed, failed_reason,
                           remote_failed, retry_pending>>
       ELSE LET r == process_document(file_to_process, out) IN
            /\ out = "upload_raises" => ~InBucket(file_to_process.name)
            /\ pc' = "display"
            /\ process_calls' = process_calls + 1
            /\ held_at_call' = (xray_data # None)
            /\ upload_calls' = upload_calls + r.uploads
            /\ lookup_hit' = (IF out = "check_raises" THEN "none"
                              ELSE IF InBucket(file_to_process.name) THEN "hit"
                              ELSE "miss")
            /\ bucket' = r.bucket
            /\ StoreResult(r)
            /\ failed_reason' = (r.raised # "none")
            /\ doc_call_failed' = (IF r.raised # "none" THEN r.raised ELSE doc_call_failed)
            /\ remote_failed' = (remote_failed \/ r.raised # "none")
            /\ retry_pending' = (r.raised # "none")
            /\ UNCHANGED chat_input
    /\ UNCHANGED <<uploaded_file_name, uploaded_file_type, auto_loaded_file,
                   chat_history, last_api_key_hash, uploaded, reprocess_button,
                   env_groundx_key, env_openrouter_key, trigger, prompt, gx,
                   bucket_id, groundx_available, last_event, sample_lookups, uncaught>>

\* ChatTurn with a handler that also drops the result it has answered from
ChatTurnDropsResult(out) ==
    /\ chat_history' = chat_history
           \o <<[role |-> "user", content |-> StrV(prompt)],
                [role |-> "assistant",
                 content |-> generate_chat_response(prompt, Null, env_openrouter_key, out)]>>
    /\ xray_data' = None
    /\ processing_complete' = FALSE
    /\ UNCHANGED <<uncaught, uploaded_file_path, uploaded_file_name,
                   uploaded_file_type, used_existing_file, auto_loaded_file>>

\* lines 514-528: one chat message
ChatTurn(out) ==
    LET context == prepare_chat_context(XRayOf(xray_data), prompt)
        response == generate_chat_response(prompt, context, env_openrouter_key, out)
    IN  /\ IF context = Raised
           THEN /\ chat_history' = Append(chat_history, [role |-> "user", content |-> StrV(prompt)])
                /\ uncaught' = TRUE
           ELSE /\ chat_history' = chat_history
                      \o <<[role |-> "user", content |-> StrV(prompt)],
                           [role |-> "assistant", content |-> response]>>
                /\ UNCHANGED uncaught
        /\ UNCHANGED document

\* lines 389-550: the results and the chat
Display(out) ==
    /\ UNCHANGED <<builder, reply>>
    /\ pc = "display"
    /\ pc' = "idle"
    /\ just_reset' = "none"
    /\ chat_input' = (DictTruthy(XRayOf(xray_data)) /\ Truthy(env_openrouter_key))
    /\ IF DictTruthy(XRayOf(xray_data)) /\ Truthy(env_openrouter_key) /\ trigger = "chat"
       THEN ChatTurn(out)
       ELSE /\ out \in {o \in SessionOutcomes : o.kind = "reply"}
            /\ UNCHANGED <<chat_history, uncaught, document>>
    /\ UNCHANGED <<last_api_key_hash, uploaded, reprocess_button,
                   env, trigger, prompt, gx, bucket_id, groundx_available,
                   last_event, sample_lookups, process_calls, upload_calls,
                   lookup_hit, held_at_call, doc_call_failed, failed_reason,
                   remote_failed, retry_pending>>

(***************************************************************************)
(* The session                                                             *)
(***************************************************************************)
vars == <<session, widgets, env, run, observed, builder, reply>>

Next ==
    \/ \E f \in Names : SelectFile(f)
    \/ RemoveFile
    \/ ClearAnalysis
    \/ PressReprocess
    \/ PressReload
    \/ \E q \in Questions : SubmitChat(q)
    \/ \E gk \in GroundxKeys, ok \in OpenRouterKeys : EditEnv(gk, ok)
    \/ Sidebar
    \/ \E out \in ClientOutcomes : ClientInit(out)
    \/ \E out \in DocOutcomes : AutoLoad(out)
    \/ \E out \in DocOutcomes : Process(out)
    \/ \E out \in SessionOutcomes : Display(out)

\* no call of the builder is observed in the session model
BuilderOff ==
    /\ cx_doc = Null
    /\ cx_prompt = <<>>
    /\ cx_pc = "off"
    /\ cx_out = Null

\* no call of generate_chat_response is observed on its own
ReplyOff ==
    /\ gr_prompt = <<>>
    /\ gr_context = Null
    /\ gr_key = Null
    /\ gr_http = [kind |-> "exception", status |-> 0]
    /\ gr_pc = "off"
    /\ gr_result = Null
    /\ gr_posted = FALSE

SessionInit == SessionStart /\ BuilderOff /\ ReplyOff

Spec == SessionInit /\ [][Next]_vars

TypeOK ==
    /\ xray_data \in Names \cup {None}
    /\ uploaded_file_path \in Names \cup {False}
    /\ uploaded_file_name \in Names \cup {False}
    /\ uploaded \in Names \cup {None}
    /\ pc \in {"idle", "sidebar", "client", "autoload", "process", "display"}
    /\ Len(chat_history) <= MaxHistory

(***************************************************************************)
(* prepare_chat_context on its own: the results it is called with          *)
(***************************************************************************)
\* the longest document, in pages, and the longest page, in chunks
MaxPages == 3

MaxChunks == 4

\* The text of chunk c of page p: one character of its own, so that an
\* excerpt in the output is traced to its chunk; the first chunk of the
\* document is longer than the limit, every second chunk exactly at it.
ChunkChar(p, c) == "p" \o ToString(p) \o "c" \o ToString(c)

ChunkLen(p, c) ==
    IF p = 1 /\ c = 1 THEN ExcerptLimit + 1
    ELSE IF c = 2 THEN ExcerptLimit
    ELSE p + c

ChunkText(p, c) == Rep(ChunkChar(p, c), ChunkLen(p, c))

\* a chunk without usable text: no "text" key, a null text, an empty text
NoText(c) ==
    CASE c % 3 = 1 -> [text |-> Absent]
      [] c % 3 = 2 -> [text |-> Null]
      [] OTHER -> [text |-> StrV(<<>>)]

\* the chunk list of page p with n chunks, those of `holes` without text
ChunkList(p, n, holes) ==
    [c \in 1..n |-> IF c \in holes THEN NoText(c) ELSE [text |-> StrV(ChunkText(p, c))]]

\* which chunks of a page of n chunks lack text: any of those the builder reads
HoleSets(n) == SUBSET ((1..ChunkWindow) \cap (1..n))

\* the pages that can stand at position p
PagesAt(p) ==
    {[chunks |-> Absent], [chunks |-> Null]}
    \cup {[chunks |-> ListV(ChunkList(p, n, h))] : <<n, h>> \in
            {nh \in (0..MaxChunks) \X SUBSET (1..ChunkWindow) : nh[2] \in HoleSets(nh[1])}}

\* a page behind the pages the builder reads: no chunks key, null chunks, or
\* MaxChunks chunks with text
LaterPage(kind, p) ==
    CASE kind = "absent" -> [chunks |-> Absent]
      [] kind = "null" -> [chunks |-> Null]
      [] OTHER -> [chunks |-> ListV(ChunkList(p, MaxChunks, {}))]

\* the page lists: up to MaxPages pages, those behind the second of one kind
PageLists ==
    {<<>>}
    \cup {<<a>> : a \in PagesAt(1)}
    \cup {<<a, b>> \o [i \in 1..t |-> LaterPage(kind, i + 2)] :
            a \in PagesAt(1), b \in PagesAt(2), t \in 0..(MaxPages - 2),
            kind \in {"absent", "null", "text"}}

AllPageValues == {Absent, Null} \cup {ListV(l) : l \in PageLists}

\* a few page values, combined with every header
FewPageValues ==
    {Absent, Null, ListV(<<>>),
     ListV(<<[chunks |-> Absent]>>),
     ListV(<<[chunks |-> ListV(ChunkList(1, 1, {1}))]>>),
     ListV(<<[chunks |-> ListV(ChunkList(1, 2, {}))]>>)}

Doc(summary, pages, type, lang) ==
    [fileSummary |-> summary, documentPages |-> pages, fileType |-> type,
     language |-> lang]

CtxDocs ==
    {Null}
    \cup {Doc(s, pg, t, l) : s \in {Absent, Null, StrV(<<>>), StrV(Lit("S"))},
                             pg \in FewPageValues,
                             t \in {Absent, StrV(<<>>), StrV(Lit("PDF"))},
                             l \in {Absent, Null, StrV(Lit("en"))}}
    \cup {Doc(h, pg, h, h) : h \in {Absent, StrV(Lit("H"))}, pg \in AllPageValues}

CtxQuestions == {Lit("q1"), Lit("q2")}

BuilderInit ==
    /\ cx_doc \in CtxDocs
    /\ cx_prompt \in CtxQuestions
    /\ cx_pc = "call"
    /\ cx_out = Null

\* the session is not running in the builder's specification
SessionOff ==
    /\ SessionStart
    /\ env_groundx_key = Null
    /\ env_openrouter_key = Null
    /\ bucket = [n \in Names |-> None]

\* context = prepare_chat_context(xray, prompt), line 525
BuildContext ==
    /\ cx_pc = "call"
    /\ cx_out' = prepare_chat_context(cx_doc, cx_prompt)
    /\ cx_pc' = "done"
    /\ UNCHANGED <<cx_doc, cx_prompt, session, widgets, env, run, observed, reply>>

NextCtx == BuildContext

InitCtx == SessionOff /\ BuilderInit /\ ReplyOff

SpecCtx == InitCtx /\ [][NextCtx]_vars

(***************************************************************************)
(* generate_chat_response on its own: the calls it can receive             *)
(***************************************************************************)
ReplyQuestions == {Lit("q1"), Lit("q2")}

\* the context argument: None, an empty string, a built context
ReplyContexts == {Null, StrV(<<>>), StrV(Lit("Summary: S"))}

\* OPENROUTER_API_KEY: not set, set to the empty string, set
ReplyKeys == {Null, StrV(<<>>), StrV(Lit("or-key"))}

ReplyInit ==
    /\ gr_prompt \in ReplyQuestions
    /\ gr_context \in ReplyContexts
    /\ gr_key \in ReplyKeys
    /\ gr_http \in HttpOutcomes
    /\ gr_pc = "call"
    /\ gr_result = Null
    /\ gr_posted = FALSE

\* response = generate_chat_response(prompt, context), line 526
GenerateReply ==
    /\ gr_pc = "call"
    /\ gr_result' = generate_chat_response(gr_prompt, gr_context, gr_key, gr_http)
    /\ gr_posted' = PostsRequest(gr_key)
    /\ gr_pc' = "done"
    /\ UNCHANGED <<gr_prompt, gr_context, gr_key, gr_http, session, widgets, env,
                   run, observed, builder>>

NextReply == GenerateReply

InitReply == SessionOff /\ BuilderOff /\ ReplyInit

SpecReply == InitReply /\ [][NextReply]_vars

(***************************************************************************)
(* The session when the document API is available and every remote call   *)
(* succeeds.  A run that has started is executed to its end: Streamlit     *)
(* runs the script without waiting for anything but the remote calls,      *)
(* which return.                                                           *)
(***************************************************************************)
\* a GROUNDX_API_KEY that line 257 accepts
ValidGroundxKey == StrV(Concat(Rep(Bom, 1), Lit("gx-key")))

\* the completion call returns a generated text
ReplyOutcome == [kind |-> "reply", status |-> 200]

LiveInit ==
    /\ SessionInit
    /\ env_groundx_key = ValidGroundxKey
    /\ env_openrouter_key = StrV(Lit("or-key"))

\* one block of the script, with its remote calls succeeding
RunStep ==
    \/ Sidebar
    \/ ClientInit("ok")
    \/ AutoLoad("ok")
    \/ Process("ok")
    \/ Display(ReplyOutcome)

NextLive ==
    \/ \E f \in Names : SelectFile(f)
    \/ RemoveFile
    \/ ClearAnalysis
    \/ PressReprocess
    \/ PressReload
    \/ \E q \in Questions : SubmitChat(q)
    \/ RunStep

SpecLive == LiveInit /\ [][NextLive]_vars /\ WF_vars(RunStep)

(***************************************************************************)
(* Properties of the session                                               *)
(***************************************************************************)
\* C1: the check-existing call of the auto-load, for the sample name, is
\* issued at most once in a session, whatever the renders and user actions.
C1_LookupAtMostOnce == sample_lookups <= 1

\* C2: right after Clear Analysis or Re-process File the result is absent,
\* the chat session is empty and the processing-complete and used-existing
\* flags are false.
C2_ResetClearsDerivedState ==
    just_reset \in {"clear", "reprocess"} =>
        /\ xray_data = None
        /\ chat_history = <<>>
        /\ ~processing_complete
        /\ ~used_existing_file

\* the runs that followed the selection of a file in Idle have ended, the
\* client was created and no remote call raised
SelectedFromIdle ==
    /\ pc = "idle"
    /\ last_event.type = "select"
    /\ last_event.idle
    /\ groundx_available
    /\ ~remote_failed

\* C3: from Idle, selecting a file whose name is not in the bucket, with
\* every remote call succeeding, ends in Ready with that file's result and
\* usedExisting false.
C3_FreshFileEndsReady ==
    (SelectedFromIdle /\ ~last_event.in_bucket) =>
        /\ xray_data = last_event.file
        /\ processing_complete
        /\ ~used_existing_file

\* C4: when the name looked up for processing exists in the bucket and the
\* fetch succeeds, the session holds a result with usedExisting true and
\* the run has issued no upload; so it is in particular when a file of an
\* existing name is selected in Idle.
C4_ExistingIsReused ==
    /\ (lookup_hit = "hit" /\ doc_call_failed = "none") =>
          /\ xray_data # None
          /\ processing_complete
          /\ used_existing_file
          /\ upload_calls = 0
    /\ (SelectedFromIdle /\ last_event.in_bucket) =>
          /\ xray_data # None
          /\ processing_complete
          /\ used_existing_file
          /\ upload_calls = 0

C4_Witness ==
    /\ pc = "idle"
    /\ SelectedFromIdle
    /\ last_event.in_bucket
    /\ process_calls = 1
    /\ lookup_hit = "hit"
    /\ xray_data = last_event.file
    /\ used_existing_file

\* C5: every failure of an existence check, a fetch or an upload is caught
\* and shown as a failure with its reason; none ends the run as an uncaught
\* exception.
C5_FailuresAreCaught ==
    doc_call_failed # "none" => (~uncaught /\ failed_reason)

\* C6: after process_document has failed, it is not called again before the
\* user selects a file or presses Re-process File.
C6_NoAutoRetry ==
    [][process_calls' = process_calls + 1 => ~retry_pending]_vars

\* the credential as the claim describes it: missing, empty or the placeholder
CredentialAbsent ==
    \/ env_groundx_key = Null
    \/ env_groundx_key = StrV(<<>>)
    \/ env_groundx_key = StrV(Lit("your-groundx-api-key-here"))

\* C7: with GROUNDX_API_KEY missing, empty or the placeholder, a run creates
\* no client, issues no existence check, upload or fetch, and the session
\* does not become Ready.
C7_NoCredentialNoCalls ==
    [][CredentialAbsent =>
          /\ pc \in {"client", "autoload", "process", "display"} =>
                /\ gx' = None
                /\ ~groundx_available'
                /\ sample_lookups' = sample_lookups
                /\ process_calls' = process_calls
                /\ upload_calls' = upload_calls
                /\ lookup_hit' = lookup_hit
                /\ bucket' = bucket
          /\ xray_data = None => xray_data' = None]_vars

C7_Witness ==
    /\ pc = "idle"
    /\ env_groundx_key = StrV(Lit("your-groundx-api-key-here"))
    /\ last_event.type = "select"
    /\ uploaded # None
    /\ uploaded_file_path = uploaded
    /\ xray_data = None
    /\ InBucket(Sample)

\* C8: one run of the script calls process_document at most once and uploads
\* at most once, and does not call it when a result is already held.
C8_OneProcessingPerRun ==
    /\ process_calls <= 1
    /\ upload_calls <= 1
    /\ ~held_at_call

C8_Witness ==
    /\ pc = "display"
    /\ process_calls = 1
    /\ upload_calls = 1
    /\ xray_data # None

(***************************************************************************)
(* Properties of prepare_chat_context                                      *)
(***************************************************************************)
\* a field that holds a non-empty string
HasText(v) == v.k = "str" /\ v.v # <<>>

\* the chunks at positions 1-3 of pages 1-2 that carry a non-empty text
WindowTexts(x) ==
    IF x.documentPages.k # "list" THEN {}
    ELSE {pc2 \in (1..2) \X (1..3) :
            /\ pc2[1] <= Len(x.documentPages.v)
            /\ x.documentPages.v[pc2[1]].chunks.k = "list"
            /\ pc2[2] <= Len(x.documentPages.v[pc2[1]].chunks.v)
            /\ HasText(x.documentPages.v[pc2[1]].chunks.v[pc2[2]].text)}

NoPartProducible(x) ==
    \/ x = Null
    \/ x = EmptyDict
    \/ /\ ~HasText(x.fileSummary)
       /\ WindowTexts(x) = {}
       /\ ~HasText(x.fileType)
       /\ ~HasText(x.language)

\* C9: prepare_chat_context never raises on a result whose optional fields
\* are absent or empty, and returns None exactly when no part is producible.
C9_NeverRaisesNullIffNoPart ==
    cx_pc = "done" =>
        /\ cx_out # Raised
        /\ cx_out = Null <=> NoPartProducible(cx_doc)
        /\ cx_out # Null => cx_out.k = "str"

\* the characters of the chunks outside positions 1-3 of pages 1-2
OutsideChars ==
    {ChunkChar(p, c) : <<p, c>> \in
        {q \in (1..MaxPages) \X (1..MaxChunks) : q[1] > 2 \/ q[2] > 3}}

\* C10: no text of page 3 or later, or of the 4th or later chunk of a page,
\* appears in the output.
C10_ExcerptBound ==
    cx_pc = "done" =>
        \A i \in 1..Len(cx_out.v) : cx_out.v[i].ch \notin OutsideChars

C10_Witness ==
    /\ cx_pc = "done"
    /\ cx_out.k = "str"
    /\ cx_doc.documentPages.k = "list"
    /\ Len(cx_doc.documentPages.v) = 3
    /\ \A p \in 1..3 :
          /\ cx_doc.documentPages.v[p].chunks.k = "list"
          /\ Len(cx_doc.documentPages.v[p].chunks.v) = 4
    /\ \A c \in 1..3 : ~HasText(cx_doc.documentPages.v[1].chunks.v[c].text)
    /\ \E i \in 1..Len(cx_out.v) : cx_out.v[i].ch = ChunkChar(2, 1)

\* the text of the chunk at position pc2 = <<page, chunk>> of result x
TextAt(x, pc2) == x.documentPages.v[pc2[1]].chunks.v[pc2[2]].text.v

\* the runs of the output that carry characters of string t
RunsOf(out, t) == {i \in 1..Len(out) : \E j \in 1..Len(t) : out[i].ch = t[j].ch}

\* C11: in a returned context, every chunk text of the read window longer
\* than 500 characters appears as exactly its first 500 characters followed
\* by the marker "...", and every chunk text of 500 characters or less
\* (exactly 500 included) appears whole and is not followed by the marker.
C11_TruncationLaw ==
    (cx_pc = "done" /\ cx_out.k = "str") =>
        \A w \in WindowTexts(cx_doc) :
            LET t == TextAt(cx_doc, w)
                at == RunsOf(cx_out.v, t)
                i == CHOOSE k \in at : TRUE
                marked == i < Len(cx_out.v) /\ <<cx_out.v[i + 1]>> = Ellipsis
            IN  /\ Cardinality(at) = 1
                /\ IF StrLen(t) > 500
                   THEN /\ <<cx_out.v[i]>> = StrTake(t, 500)
                        /\ cx_out.v[i].n = 500
                        /\ marked
                   ELSE /\ <<cx_out.v[i]>> = t
                        /\ ~marked

C11_Witness ==
    /\ cx_pc = "done"
    /\ cx_out.k = "str"
    /\ {<<1, 1>>, <<1, 2>>, <<2, 3>>} \subseteq WindowTexts(cx_doc)
    /\ StrLen(TextAt(cx_doc, <<1, 1>>)) = 501
    /\ StrLen(TextAt(cx_doc, <<1, 2>>)) = 500
    /\ StrLen(TextAt(cx_doc, <<2, 3>>)) < 500
    /\ \E i \in 1..Len(cx_out.v) : <<cx_out.v[i]>> = Ellipsis

\* the labels of the parts, in the order of the claim
Labels == <<"Summary: ", "Document Content: ", "File Type: ", "Language: ">>

\* the source of part k holds something: the summary, a non-empty chunk
\* text in the read window, the file type, the language
PartPresent(x, k) ==
    CASE k = 1 -> HasText(x.fileSummary)
      [] k = 2 -> WindowTexts(x) # {}
      [] k = 3 -> HasText(x.fileType)
      [] OTHER -> HasText(x.language)

\* the body of part k when it is a single field
PartField(x, k) ==
    CASE k = 1 -> x.fileSummary.v
      [] k = 3 -> x.fileType.v
      [] OTHER -> x.language.v

\* where label k stands in the output
LabelPos(out, k) == {i \in 1..Len(out) : out[i] = [ch |-> Labels[k], n |-> 1]}

IsLabel(r) == \E k \in 1..4 : r = [ch |-> Labels[k], n |-> 1]

\* a blank line between two parts
IsBlankLine(r) == r.ch = "\n\n"

\* page-then-chunk order of two positions
Before(a, b) == a[1] < b[1] \/ (a[1] = b[1] /\ a[2] < b[2])

\* where the excerpt of the chunk at w stands in the output
ExcerptPos(out, x, w) == CHOOSE i \in RunsOf(out, TextAt(x, w)) : TRUE

\* the output ends, or the part ends, right after run i
PartEndsAfter(out, i) == i = Len(out) \/ IsBlankLine(out[i + 1])

\* C12: a returned context is made of the parts Summary, Document Content,
\* File Type, Language in that order; a part is there exactly when its
\* source holds something (for Document Content: a non-empty chunk text in
\* the read window); two consecutive parts are separated by exactly one
\* blank line; inside Document Content the excerpts follow each other in
\* page-then-chunk order, separated by one space.
C12_PartsInOrder ==
    /\ (cx_pc = "done" /\ cx_out = Null /\ cx_doc # Null) =>
          \A k \in 1..4 : ~PartPresent(cx_doc, k)
    /\ (cx_pc = "done" /\ cx_out.k = "str") =>
          LET o == cx_out.v
              x == cx_doc
              pos(k) == CHOOSE i \in LabelPos(o, k) : TRUE
              W == WindowTexts(x)
              at(w) == ExcerptPos(o, x, w)
          IN  \* presence
              /\ \A k \in 1..4 :
                    Cardinality(LabelPos(o, k)) = IF PartPresent(x, k) THEN 1 ELSE 0
              \* order
              /\ \A k1, k2 \in 1..4 :
                    (k1 < k2 /\ PartPresent(x, k1) /\ PartPresent(x, k2))
                        => pos(k1) < pos(k2)
              \* one blank line between parts, none elsewhere
              /\ IsLabel(o[1])
              /\ \A i \in 1..Len(o) :
                    /\ IsBlankLine(o[i]) =>
                          /\ o[i].n = 1
                          /\ i < Len(o)
                          /\ IsLabel(o[i + 1])
                    /\ (IsLabel(o[i]) /\ i > 1) => IsBlankLine(o[i - 1])
              \* the single-field parts
              /\ \A k \in {1, 3, 4} :
                    PartPresent(x, k) =>
                        /\ SubSeq(o, pos(k) + 1, pos(k) + Len(PartField(x, k)))
                               = PartField(x, k)
                        /\ PartEndsAfter(o, pos(k) + Len(PartField(x, k)))
              \* Document Content
              /\ \A w \in W :
                    /\ (~\E v \in W : Before(v, w)) => at(w) = pos(2) + 1
                    /\ (~\E v \in W : Before(w, v)) =>
                          \/ PartEndsAfter(o, at(w))
                          \/ /\ <<o[at(w) + 1]>> = Ellipsis
                             /\ PartEndsAfter(o, at(w) + 1)
                    /\ \A v \in W :
                          (Before(w, v) /\ ~\E u \in W : Before(w, u) /\ Before(u, v))
                              => /\ at(v) - at(w) \in {2, 3}
                                 /\ o[at(v) - 1] = [ch |-> " ", n |-> 1]
                                 /\ at(v) - at(w) = 3 => <<o[at(w) + 1]>> = Ellipsis

C12_Witness ==
    /\ cx_pc = "done"
    /\ cx_out.k = "str"
    /\ \A k \in 1..4 : PartPresent(cx_doc, k)
    /\ WindowTexts(cx_doc) = {<<1, 1>>, <<1, 3>>, <<2, 2>>}
    /\ Cardinality({i \in 1..Len(cx_out.v) : IsBlankLine(cx_out.v[i])}) = 3

\* C13: the outcome of prepare_chat_context does not depend on the question:
\* what the call returned for its question is what the function gives for
\* the same result with any other question.
C13_QuestionIndependent ==
    cx_pc = "done" =>
        \A q \in CtxQuestions : prepare_chat_context(cx_doc, q) = cx_out

C13_Witness ==
    /\ cx_pc = "done"
    /\ cx_prompt = Lit("q2")
    /\ cx_out.k = "str"
    /\ \A k \in 1..4 : PartPresent(cx_doc, k)
    /\ \E q \in CtxQuestions : q # cx_prompt

(***************************************************************************)
(* Properties of generate_chat_response                                    *)
(***************************************************************************)
\* C14: whatever the question, the context and the outcome of the remote
\* call (any status, any body, a null or missing content, a transport
\* error), generate_chat_response returns a string.
C14_AlwaysReturnsText ==
    gr_pc = "done" => gr_result.k = "str"

\* the completion API answered with a success status (2xx)
HttpSuccess == gr_http.kind # "exception" /\ gr_http.status \in 200..299

\* C15: a success status with a body that has no choices field, an empty
\* choices array, or a first choice without message content gives the
\* fallback "Sorry, I couldn't generate a response." and no other text.
C15_MalformedGivesFallback ==
    (/\ gr_pc = "done"
     /\ gr_posted
     /\ HttpSuccess
     /\ gr_http.kind \in {"no_choices", "empty_choices", "no_message",
                          "no_content", "null_content"})
        => gr_result = StrV(Lit("Sorry, I couldn't generate a response."))

\* OPENROUTER_API_KEY is not set, or set to nothing
NoCompletionCredential == gr_key = Null \/ gr_key = StrV(<<>>)

\* C16: without a completion credential the call returns, for every
\* question and context, the one error string that names OPENROUTER_API_KEY,
\* and requests.post is not called.
C16_NoKeyFixedError ==
    (gr_pc = "done" /\ NoCompletionCredential) =>
        /\ gr_result.k = "str"
        /\ Len(gr_result.v) = 2
        /\ gr_result.v[1].ch = "\\u274c"
        /\ gr_result.v[2].ch = " Error: OPENROUTER_API_KEY not found in environment variables. Please add it to your .env file."
        /\ ~gr_posted

C16_Witness ==
    /\ gr_pc = "done"
    /\ gr_key = StrV(<<>>)
    /\ gr_prompt = Lit("q2")
    /\ gr_context.k = "str"
    /\ gr_context.v # <<>>
    /\ gr_result.k = "str"

\* C17: a non-2xx status gives the fixed string with that status code in
\* it; a success status with a non-empty reply gives the generated text.
C17_StatusThenReply ==
    (gr_pc = "done" /\ gr_posted /\ gr_http.kind # "exception") =>
        /\ ~HttpSuccess =>
              /\ gr_result.k = "str"
              /\ gr_result.v[Len(gr_result.v)].ch = ToString(gr_http.status)
        /\ (HttpSuccess /\ gr_http.kind = "reply") =>
              gr_result = StrV(GeneratedText)

C19_ChatLeavesDocument ==
    [][/\ (pc = "display" /\ trigger = "chat") =>
             UNCHANGED <<document, last_api_key_hash>>
       /\ last_event'.type = "chat" =>
             UNCHANGED <<xray_data, uploaded_file_name, uploaded_file_type,
                         processing_complete, used_existing_file,
                         auto_loaded_file>>]_vars

C19_Witness ==
    /\ pc = "idle"
    /\ last_event.type = "chat"
    /\ trigger = "chat"
    /\ Len(chat_history) = 2
    /\ chat_history[1].content = StrV(prompt)
    /\ xray_data # None
    /\ processing_complete

(***************************************************************************)
(* Properties of the loaded document                                       *)
(***************************************************************************)
\* C20: between two runs, a held result is the result of the document whose
\* name the session stores: of the file of that name, or of the document
\* stored under that name in the bucket.
C20_NameMatchesResult ==
    (pc = "idle" /\ xray_data # None) =>
        /\ uploaded_file_name # False
        /\ \/ xray_data = uploaded_file_name
           \/ xray_data = bucket[uploaded_file_name]

\* the session is Ready with the result of file f, which is in the uploader
ReadyWith(f) ==
    /\ pc = "idle"
    /\ uploaded = f
    /\ xray_data = f
    /\ processing_complete

\* the user has just pressed Clear Analysis or Re-process File
ResetPressed == just_reset \in {"clear", "reprocess"}

\* C21: with the document API available and every remote call succeeding,
\* a file that the user selects and keeps in the uploader, pressing Clear
\* Analysis or Re-process File again and again, is processed: the session
\* is Ready with that file's result, again and again.
C21_SelectedFileIsProcessed ==
    \A f \in Names :
        (<>[](uploaded = f) /\ []<>ResetPressed) => []<>ReadyWith(f)

====
